---- MODULE Spec2Model ----
(***************************************************************************)
(* DocuBot (notebooks/DocuBot.ipynb): document ingestion into a pgvector   *)
(* table through a psycopg2 connection pool, nearest-neighbour retrieval,  *)
(* and the two-call chat loop.                                             *)
(*                                                                         *)
(* A Python string is modelled as a sequence of pieces (each piece a TLA+  *)
(* string): concatenation is \o, the empty string is <<>>.  A document is  *)
(* a sequence of sentences; the tokenizer gives each sentence its length   *)
(* in tokens.                                                              *)
(***************************************************************************)
EXTENDS Integers, Sequences, FiniteSets, TLC

\* ------------------------------------------------------------------ bounds
MaxIngests == 2
MaxRows == 6
MaxTurns == 3
MaxCreates == 1
MaxCallers == 11

\* ------------------------------------------------------- program constants
chunk_size == 300
chunk_overlap == 20
minconn == 1
maxconn == 10
EmbeddingWidth == 768
LimitK == 5

\* ------------------------------------------------------------------ strings
\* The characters str.strip() removes: those str.isspace() is true for.
\* There are 29; the 13 that a string literal of this language can hold are
\* here: space, tab, line feed, vertical tab, form feed, carriage return,
\* the separators 0x1c..0x1f, U+0085, U+00A0 and U+1680.  The other 16
\* (U+2000..U+200A, U+2028, U+2029, U+202F, U+205F, U+3000) cannot be
\* written in a string, so no string of the model holds one.
Whitespace ==
    {" ", "\t", "\n", "", "\f", "\r", "", "", "", "",
     "", " ", " "}

RECURSIVE lstrip(_)
lstrip(s) == IF s # <<>> /\ Head(s) \in Whitespace THEN lstrip(Tail(s)) ELSE s

RECURSIVE rstrip(_)
rstrip(s) ==
    IF s # <<>> /\ s[Len(s)] \in Whitespace
    THEN rstrip(SubSeq(s, 1, Len(s) - 1))
    ELSE s

\* str.strip()
strip(s) == rstrip(lstrip(s))

\* sep.join(items)
RECURSIVE join(_, _)
join(sep, items) ==
    IF items = <<>> THEN <<>>
    ELSE IF Len(items) = 1 THEN items[1]
    ELSE items[1] \o sep \o join(sep, Tail(items))

\* prompt_template.format(query = query, context = context)
prompt_template(query, context) ==
    <<"Refer to the following context to answer this query: ">> \o query
        \o <<"\n", "\n", "Context: ">> \o context

\* --------------------------------------------------------------- segmenter
\* The tokenizer: the number of tokens of one sentence.
SentenceTokens ==
    [x \in {"A.", "B."} |-> 280] @@ [x \in {"c."} |-> 15]
        @@ [x \in {"D."} |-> 290]

RECURSIVE token_size(_)
token_size(s) ==
    IF s = <<>> THEN 0 ELSE SentenceTokens[Head(s)] + token_size(Tail(s))

\* SentenceSplitter._split: a text that fits is one split, a longer one is
\* split at its sentence boundaries.
split(text) ==
    IF token_size(text) <= chunk_size
    THEN <<text>>
    ELSE [i \in 1..Len(text) |-> <<text[i]>>]

\* close_chunk: the overlap carried into the next chunk is the longest run of
\* trailing splits of the closed chunk that fits in chunk_overlap tokens.
RECURSIVE overlap_tail(_, _)
overlap_tail(chunk, acc) ==
    IF chunk # <<>>
       /\ token_size(acc) + SentenceTokens[chunk[Len(chunk)]] <= chunk_overlap
    THEN overlap_tail(SubSeq(chunk, 1, Len(chunk) - 1),
                      <<chunk[Len(chunk)]>> \o acc)
    ELSE acc

\* SentenceSplitter._merge
RECURSIVE merge(_, _, _, _)
merge(splits, cur_chunk, new_chunk, chunks) ==
    IF splits = <<>>
    THEN IF new_chunk THEN chunks ELSE Append(chunks, cur_chunk)
    ELSE IF token_size(cur_chunk) + token_size(Head(splits)) > chunk_size
            /\ ~new_chunk
         THEN merge(splits, overlap_tail(cur_chunk, <<>>), TRUE,
                    Append(chunks, cur_chunk))
         ELSE merge(Tail(splits), cur_chunk \o Head(splits), FALSE, chunks)

\* _postprocess_chunks: strip every chunk, drop the blank ones
postprocess_chunks(chunks) ==
    SelectSeq([i \in 1..Len(chunks) |-> strip(chunks[i])], LAMBDA c : c # <<>>)

\* split_input_to_chunks(input_text)
split_input_to_chunks(input_text) ==
    IF input_text = <<>>
    THEN << <<>> >>
    ELSE postprocess_chunks(merge(split(input_text), <<>>, TRUE, <<>>))

\* --------------------------------------------------------------- embedding
RECURSIVE Count(_, _)
Count(x, s) ==
    IF s = <<>> THEN 0
    ELSE (IF Head(s) = x THEN 1 ELSE 0) + Count(x, Tail(s))

\* The embedding model's answer for a text: a vector of EmbeddingWidth
\* floats, of which only the leading coordinates are ever non-zero here
\* (lead); the remaining coordinates are 0.
EmbeddingModel(text) ==
    [width |-> EmbeddingWidth,
     lead |-> <<Count("A.", text) + Count("q2", text), Count("B.", text)>>]

\* The widths the embedding service may answer with: the one the table was
\* declared for, and another one (another model behind the same call).
EmbeddingWidths == {EmbeddingWidth, EmbeddingWidth \div 2}

\* text_embedding(text): the vector of the service's answer, which the code
\* hands on whatever its width
text_embedding(text) ==
    { [EmbeddingModel(text) EXCEPT !.width = w] : w \in EmbeddingWidths }

\* embedding <-> query: squared Euclidean distance (the order it induces is
\* the order of the distance itself)
L2(u, v) ==
    (u.lead[1] - v.lead[1]) * (u.lead[1] - v.lead[1])
    + (u.lead[2] - v.lead[2]) * (u.lead[2] - v.lead[2])

\* ----------------------------------------------------------------- inputs
\* Documents handed to ingest: the empty text, one that fits in a chunk, two
\* whose closed chunk ends in a short sentence (carried over as overlap, in
\* front of a long sentence and of a longer one), and one of six long
\* sentences (six chunks: more rows than LIMIT 5 keeps).
Texts ==
    { <<>>,
      <<"c.">>,
      <<"A.", "c.", "B.">>,
      <<"A.", "c.", "D.">>,
      <<"A.", "B.", "A.", "B.", "A.", "B.">> }

sentinel == <<"quit">>
Queries == { <<"q1">>, <<"q2">> }

\* What the chat service may answer (response.text), before .strip()
Responses == { <<"r1">>, <<" ", "\t", " ", "r2", "", "\r", "\n">> }

\* Exceptions as they appear in the interpreter
NoExc == "none"
DbErrors == {"psycopg2.DatabaseError", "psycopg2.OperationalError",
             "psycopg2.InterfaceError"}

\* ------------------------------------------------------------------- state
VARIABLES
    table,            \* my_table as committed: [exists, rows]
    next_id,          \* the SERIAL sequence behind id
    conn_pool,        \* SimpleConnectionPool: [idle, used] (len(_pool), len(_used))
    connection,       \* the local `connection` of the running store method
    tx,               \* the borrowed connection's transaction: [status, recreate, rows]
    pc,               \* position of the single thread of control
    op,               \* the store method running: "create", "ingest", "retrieve"
    caller,           \* who called it: "init", "cell", "loop"
    ingest_text,      \* ingest: its argument `text`
    embedded,         \* ingest: the chunks text_embedding was called with
    chunks,           \* get_text_embedding_pairs: chunks not yet embedded
    pairs,            \* chunk_embedding_pairs / data_list
    todo,             \* rows of data_list execute_values has not inserted yet
    query_embedding,  \* retrieve: the embedded query
    retrieved_chunk,  \* retrieve: the value returned
    exc,              \* the exception in flight inside the store method
    raised,           \* the exception that reached the caller ("none": returned)
    logged,           \* what logger.error was given during this store method
    entry,            \* at the call: [used, idle, rows] (pool and table then)
    released,         \* putconn calls that handed a connection back, this call
    ingests,          \* ingest calls made from the notebook's cells
    creates,          \* _create_table calls made from cells, after construction
    chat_history,
    query,
    model_input_1,
    response_1,       \* response_1.text
    updated_context,
    similar_chunks,
    model_input_2,
    session,          \* "none", "running", "quit", "error"
    turns,            \* turns started
    steps,            \* the steps taken since the last query was read
    history_at_read,  \* chat_history when the last query was read
    asked,            \* every query read so far, the sentinel excepted
    borrowers         \* concurrent callers of the store holding a connection

dbvars == <<table, next_id, conn_pool, connection, tx>>
opvars == <<op, caller, ingest_text, embedded, chunks, pairs, todo,
            query_embedding, retrieved_chunk, exc, logged, entry, released>>
chatvars == <<chat_history, query, model_input_1, response_1, updated_context,
              similar_chunks, model_input_2, session, turns, steps,
              history_at_read, asked>>
vars == <<dbvars, opvars, chatvars, pc, raised, ingests, creates, borrowers>>

NoTx == [status |-> "idle", recreate |-> FALSE, rows |-> <<>>]
NoVector == [width |-> 0, lead |-> <<0, 0>>]

\* A row a previous run of the notebook may have left in my_table
LeftoverRow == [id |-> 1, text_chunk |-> <<"B.">>, embedding |-> EmbeddingModel(<<"B.">>)]

\* DataStore.__init__ up to and including _get_connection_pool(): the pool
\* holds its minconn connections, none borrowed; _create_table() is next.
Init ==
    /\ table \in { [exists |-> FALSE, rows |-> <<>>],
                   [exists |-> TRUE, rows |-> <<LeftoverRow>>] }
    /\ next_id = Len(table.rows) + 1
    /\ conn_pool = [idle |-> minconn, used |-> 0]
    /\ connection = "unbound"
    /\ tx = NoTx
    /\ pc = "construct"
    /\ op = "none"
    /\ caller = "none"
    /\ ingest_text = <<>>
    /\ embedded = <<>>
    /\ chunks = <<>>
    /\ pairs = <<>>
    /\ todo = <<>>
    /\ query_embedding = NoVector
    /\ retrieved_chunk = <<>>
    /\ exc = NoExc
    /\ raised = NoExc
    /\ logged = NoExc
    /\ entry = [used |-> 0, idle |-> 0, rows |-> <<>>]
    /\ released = 0
    /\ ingests = 0
    /\ creates = 0
    /\ chat_history = <<>>
    /\ query = <<>>
    /\ model_input_1 = <<>>
    /\ response_1 = <<>>
    /\ updated_context = <<>>
    /\ similar_chunks = <<>>
    /\ model_input_2 = <<>>
    /\ session = "none"
    /\ turns = 0
    /\ steps = <<>>
    /\ history_at_read = <<>>
    /\ asked = <<>>
    /\ borrowers = {}

\* The step log of the running turn (nothing is logged outside the loop)
Step(name) == IF session = "running" THEN Append(steps, name) ELSE steps

\* ------------------------------------------------------------ the pool
\* SimpleConnectionPool.getconn: an idle connection if there is one, else a
\* new one unless maxconn are out.  "ok" or the exception raised.
getconn_outcomes(pool) ==
    IF pool.idle > 0 THEN {"ok"}
    ELSE IF pool.used = maxconn THEN {"psycopg2.pool.PoolError"}
    ELSE {"ok", "psycopg2.OperationalError"}

getconn(pool) ==
    IF pool.idle > 0
    THEN [idle |-> pool.idle - 1, used |-> pool.used + 1]
    ELSE [idle |-> pool.idle, used |-> pool.used + 1]

\* putconn as it would be if a connection found closed were dropped without
\* being taken out of _used.
putconnOpenOnly(pool, conn) ==
    IF conn # "open"
    THEN pool
    ELSE IF pool.idle < minconn
         THEN [idle |-> pool.idle + 1, used |-> pool.used - 1]
         ELSE [idle |-> pool.idle, used |-> pool.used - 1]

\* SimpleConnectionPool.putconn(conn): conn leaves _used; it goes back to
\* _pool when fewer than minconn are idle and it is still open, and is
\* closed otherwise.
putconn(pool, conn) ==
    IF pool.idle < minconn /\ conn = "open"
    THEN [idle |-> pool.idle + 1, used |-> pool.used - 1]
    ELSE [idle |-> pool.idle, used |-> pool.used - 1]

\* ------------------------------------------------- the store's methods
\* Enter a store method: nothing borrowed yet, `connection` not yet bound.
Enter(method, from) ==
    /\ op' = method
    /\ caller' = from
    /\ logged' = NoExc
    /\ released' = 0
    /\ entry' = [used |-> conn_pool.used, idle |-> conn_pool.idle,
                 rows |-> table.rows]
    /\ connection' = "unbound"

\* Leave a store method (or a function it called): its frame is gone.
Leave ==
    /\ op' = "none"
    /\ caller' = "none"
    /\ ingest_text' = <<>>
    /\ embedded' = <<>>
    /\ chunks' = <<>>
    /\ pairs' = <<>>
    /\ todo' = <<>>
    /\ query_embedding' = NoVector
    /\ retrieved_chunk' = <<>>
    /\ exc' = NoExc
    /\ logged' = NoExc
    /\ released' = 0
    /\ entry' = [used |-> 0, idle |-> 0, rows |-> <<>>]
    /\ connection' = "unbound"

\* DataStore.__init__: self._create_table()
Construct ==
    /\ pc = "construct"
    /\ Enter("create", "init")
    /\ exc' = NoExc
    /\ pc' = "getconn"
    /\ raised' = NoExc
    /\ UNCHANGED <<table, next_id, conn_pool, tx, ingest_text, embedded,
                   chunks, pairs, todo, query_embedding, retrieved_chunk,
                   chatvars, ingests, creates, borrowers>>

\* _create_table() called again on the constructed store
CreateTableCall ==
    /\ pc = "ready"
    /\ creates < MaxCreates
    /\ creates' = creates + 1
    /\ Enter("create", "cell")
    /\ exc' = NoExc
    /\ pc' = "getconn"
    /\ raised' = NoExc
    /\ UNCHANGED <<table, next_id, conn_pool, tx, ingest_text, embedded,
                   chunks, pairs, todo, query_embedding, retrieved_chunk,
                   chatvars, ingests, borrowers>>

\* ingest(text): get_text_embedding_pairs starts by splitting the text.  The
\* splitter (its tokenizer) may raise; nothing in ingest catches that.
\* MaxRows caps the ids drawn from the sequence, and so the rows: the call
\* is explored while its rows can still get ids up to MaxRows.
IngestCall ==
    /\ pc = "ready"
    /\ ingests < MaxIngests
    /\ ingests' = ingests + 1
    /\ Enter("ingest", "cell")
    /\ raised' = NoExc
    /\ \E text \in Texts :
        /\ next_id - 1 + Len(split_input_to_chunks(text)) <= MaxRows
        /\ ingest_text' = text
        /\ embedded' = <<>>
        /\ \/ /\ chunks' = split_input_to_chunks(text)
              /\ exc' = NoExc
              /\ pc' = "embed"
           \/ /\ chunks' = <<>>
              /\ exc' = "SplitterError"
              /\ pc' = "return"
    /\ UNCHANGED <<table, next_id, conn_pool, tx, pairs, todo,
                   query_embedding, retrieved_chunk, chatvars, creates,
                   borrowers>>

\* EmbedChunk as it would be with chunk_embedding_pairs.insert(0, ...) in
\* place of append.
EmbedChunkPrepends ==
    /\ pc = "embed"
    /\ op = "ingest"
    /\ chunks # <<>>
    /\ embedded' = Append(embedded, Head(chunks))
    /\ \/ /\ \E v \in text_embedding(Head(chunks)) :
                pairs' = <<[text |-> Head(chunks), embedding |-> v]>> \o pairs
          /\ chunks' = Tail(chunks)
          /\ UNCHANGED <<pc, exc>>
       \/ /\ exc' = "EmbeddingError"
          /\ pc' = "return"
          /\ UNCHANGED <<pairs, chunks>>
    /\ UNCHANGED <<dbvars, op, caller, ingest_text, todo, query_embedding,
                   retrieved_chunk, logged, entry, released, chatvars, raised,
                   ingests, creates, borrowers>>

\* EmbedChunk as it would be with the call to the embedding service wrapped
\* in a retry: after a failure the same chunk is sent again.
EmbedChunkRetries ==
    /\ pc = "embed"
    /\ op = "ingest"
    /\ chunks # <<>>
    /\ Len(embedded) < MaxRows + 1
    /\ embedded' = Append(embedded, Head(chunks))
    /\ \/ /\ \E v \in text_embedding(Head(chunks)) :
                pairs' = Append(pairs, [text |-> Head(chunks), embedding |-> v])
          /\ chunks' = Tail(chunks)
          /\ UNCHANGED <<pc, exc>>
       \/ UNCHANGED <<pc, exc, pairs, chunks>>
    /\ UNCHANGED <<dbvars, op, caller, ingest_text, todo, query_embedding,
                   retrieved_chunk, logged, entry, released, chatvars, raised,
                   ingests, creates, borrowers>>

\* get_text_embedding_pairs: one text_embedding call per chunk, in order; a
\* failure of the embedding service leaves ingest at once.
EmbedChunk ==
    /\ pc = "embed"
    /\ op = "ingest"
    /\ chunks # <<>>
    /\ embedded' = Append(embedded, Head(chunks))
    /\ \/ /\ \E v \in text_embedding(Head(chunks)) :
                pairs' = Append(pairs, [text |-> Head(chunks), embedding |-> v])
          /\ chunks' = Tail(chunks)
          /\ UNCHANGED <<pc, exc>>
       \/ /\ exc' = "EmbeddingError"
          /\ pc' = "return"
          /\ UNCHANGED <<pairs, chunks>>
    /\ UNCHANGED <<dbvars, op, caller, ingest_text, todo, query_embedding,
                   retrieved_chunk, logged, entry, released, chatvars, raised,
                   ingests, creates, borrowers>>

\* ingest: data_list is built from the pairs; the try block is next.
EmbedDone ==
    /\ pc = "embed"
    /\ op = "ingest"
    /\ chunks = <<>>
    /\ todo' = pairs
    /\ pc' = "getconn"
    /\ UNCHANGED <<dbvars, op, caller, ingest_text, embedded, chunks, pairs,
                   query_embedding, retrieved_chunk, exc, logged, entry,
                   released, chatvars, raised, ingests, creates, borrowers>>

\* try: connection = self.conn_pool.getconn()
GetConn ==
    /\ pc = "getconn"
    /\ \E r \in getconn_outcomes(conn_pool) :
        IF r = "ok"
        THEN /\ conn_pool' = getconn(conn_pool)
             /\ connection' = "open"
             /\ tx' = NoTx
             /\ pc' = IF op = "retrieve" THEN "register" ELSE "exec"
             /\ exc' = exc
        ELSE /\ exc' = r
             /\ pc' = "except"
             /\ UNCHANGED <<conn_pool, connection, tx>>
    /\ steps' = Step("getconn")
    /\ UNCHANGED <<table, next_id, op, caller, ingest_text, embedded, chunks,
                   pairs, todo, query_embedding, retrieved_chunk, logged,
                   entry, released, chat_history, query, model_input_1,
                   response_1, updated_context, similar_chunks, model_input_2,
                   session, turns, history_at_read, asked, raised, ingests,
                   creates, borrowers>>

\* A database error on the borrowed connection: either the statement fails
\* (the connection stays open, its transaction aborted) or the connection
\* is lost (psycopg2 marks it closed).
DbFailure(kind) ==
    IF kind = "statement"
    THEN /\ exc' = "psycopg2.DatabaseError"
         /\ tx' = [tx EXCEPT !.status = "inerror"]
         /\ connection' = connection
    ELSE /\ exc' = "psycopg2.OperationalError"
         /\ tx' = [tx EXCEPT !.status = "unknown"]
         /\ connection' = "closed"

FailureKinds == {"statement", "lost"}

\* retrieve: register_vector(connection), before the with block.  It runs a
\* query on the connection, which opens a transaction.
RegisterVector ==
    /\ pc = "register"
    /\ \/ /\ tx' = [tx EXCEPT !.status = "intrans"]
          /\ pc' = "exec"
          /\ UNCHANGED <<exc, connection>>
       \/ /\ \E kind \in FailureKinds : DbFailure(kind)
          /\ pc' = "except"
    /\ UNCHANGED <<table, next_id, conn_pool, op, caller, ingest_text,
                   embedded, chunks, pairs, todo, query_embedding,
                   retrieved_chunk, logged, entry, released, chatvars, raised,
                   ingests, creates, borrowers>>

\* _create_table: cursor.execute(table_creation_query), inside
\* `with connection:`.  DROP TABLE and CREATE TABLE take effect at commit.
ExecCreate ==
    /\ pc = "exec"
    /\ op = "create"
    /\ \/ /\ tx' = [status |-> "intrans", recreate |-> TRUE, rows |-> <<>>]
          /\ pc' = "commit"
          /\ UNCHANGED <<exc, connection>>
       \/ /\ \E kind \in FailureKinds : DbFailure(kind)
          /\ pc' = "rollback"
    /\ UNCHANGED <<table, next_id, conn_pool, op, caller, ingest_text,
                   embedded, chunks, pairs, todo, query_embedding,
                   retrieved_chunk, logged, entry, released, chatvars, raised,
                   ingests, creates, borrowers>>

\* insert_row as it would be with the column declared `vector`, without a
\* width: a vector of any width is stored.
insert_rowAnyWidth(pair) ==
    IF ~table.exists
    THEN /\ DbFailure("statement")
         /\ pc' = "rollback"
         /\ UNCHANGED <<next_id, todo>>
    ELSE \/ /\ tx' = [tx EXCEPT !.status = "intrans",
                                !.rows = Append(@, [id |-> next_id,
                                                    text_chunk |-> pair.text,
                                                    embedding |-> pair.embedding])]
            /\ next_id' = next_id + 1
            /\ todo' = Tail(todo)
            /\ pc' = IF Tail(todo) = <<>> THEN "commit" ELSE "exec"
            /\ UNCHANGED <<exc, connection>>
         \/ /\ \E kind \in FailureKinds : DbFailure(kind)
            /\ pc' = "rollback"
            /\ UNCHANGED <<next_id, todo>>

\* The INSERT of one row of data_list: rejected when the table is missing or
\* the vector is not of the declared width, and it may fail as any statement
\* may.  The sequence behind id advances whether or not the row is kept.
insert_row(pair) ==
    IF ~table.exists \/ pair.embedding.width # EmbeddingWidth
    THEN /\ DbFailure("statement")
         /\ pc' = "rollback"
         /\ UNCHANGED <<next_id, todo>>
    ELSE \/ /\ tx' = [tx EXCEPT !.status = "intrans",
                                !.rows = Append(@, [id |-> next_id,
                                                    text_chunk |-> pair.text,
                                                    embedding |-> pair.embedding])]
            /\ next_id' = next_id + 1
            /\ todo' = Tail(todo)
            /\ pc' = IF Tail(todo) = <<>> THEN "commit" ELSE "exec"
            /\ UNCHANGED <<exc, connection>>
         \/ /\ \E kind \in FailureKinds : DbFailure(kind)
            /\ pc' = "rollback"
            /\ UNCHANGED <<next_id, todo>>

\* ingest: execute_values(cursor, table_update_query, data_list), inside
\* `with connection:`; rows go in one after the other, in data_list order.
ExecInsert ==
    /\ pc = "exec"
    /\ op = "ingest"
    /\ IF todo = <<>>
       THEN /\ pc' = "commit"
            /\ UNCHANGED <<tx, next_id, todo, exc, connection>>
       ELSE insert_row(Head(todo))
    /\ UNCHANGED <<table, conn_pool, op, caller, ingest_text, embedded,
                   chunks, pairs, query_embedding, retrieved_chunk, logged,
                   entry, released, chatvars, raised, ingests, creates,
                   borrowers>>

\* ORDER BY embedding <-> q LIMIT k over the rows: every order the database
\* may produce.  Rows at the same distance come in no particular order (the
\* query names no second sort key), so each of them may be next.
RECURSIVE Rankings(_, _, _, _)
Rankings(rows, q, remaining, k) ==
    IF k = 0 \/ remaining = {} THEN { <<>> }
    ELSE LET nearest == { i \in remaining :
                            \A j \in remaining :
                                L2(rows[i].embedding, q) <= L2(rows[j].embedding, q) }
         IN UNION { { <<i>> \o t : t \in Rankings(rows, q, remaining \ {i}, k - 1) }
                    : i \in nearest }

\* cursor.execute(retrieval_query, (q,)); list(chain.from_iterable(fetchall())):
\* the text_chunk column of the selected rows, as a flat list
retrieval_query(rows, q) ==
    { [n \in 1..Len(r) |-> rows[r[n]].text_chunk]
        : r \in Rankings(rows, q, 1..Len(rows), LimitK) }

\* embedding <-> q is defined for vectors of the same width only; it is
\* evaluated once per row, so not at all on a table without rows.
comparable(rows, q) ==
    \A i \in 1..Len(rows) : rows[i].embedding.width = q.width

\* ExecSelect as it would be if the first row were taken out of the result
\* (fetchone()[0]): on a table without rows that raises.
ExecSelectNeedsRow ==
    /\ pc = "exec"
    /\ op = "retrieve"
    /\ \/ /\ table.exists
          /\ table.rows # <<>>
          /\ comparable(table.rows, query_embedding)
          /\ \E result \in retrieval_query(table.rows, query_embedding) :
                retrieved_chunk' = result
          /\ tx' = [tx EXCEPT !.status = "intrans"]
          /\ pc' = "commit"
          /\ UNCHANGED <<exc, connection>>
       \/ /\ table.exists
          /\ table.rows = <<>>
          /\ exc' = "TypeError"
          /\ tx' = [tx EXCEPT !.status = "intrans"]
          /\ pc' = "rollback"
          /\ UNCHANGED <<retrieved_chunk, connection>>
       \/ /\ \E kind \in FailureKinds : DbFailure(kind)
          /\ pc' = "rollback"
          /\ UNCHANGED retrieved_chunk
    /\ UNCHANGED <<table, next_id, conn_pool, op, caller, ingest_text,
                   embedded, chunks, pairs, todo, query_embedding, logged,
                   entry, released, chatvars, raised, ingests, creates,
                   borrowers>>

\* retrieve: the SELECT, inside `with connection:`.  It fails when the table
\* is missing or a row cannot be compared with the query vector, and it may
\* fail as any statement may.
ExecSelect ==
    /\ pc = "exec"
    /\ op = "retrieve"
    /\ \/ /\ table.exists
          /\ comparable(table.rows, query_embedding)
          /\ \E result \in retrieval_query(table.rows, query_embedding) :
                retrieved_chunk' = result
          /\ tx' = [tx EXCEPT !.status = "intrans"]
          /\ pc' = "commit"
          /\ UNCHANGED <<exc, connection>>
       \/ /\ \E kind \in FailureKinds : DbFailure(kind)
          /\ pc' = "rollback"
          /\ UNCHANGED retrieved_chunk
    /\ UNCHANGED <<table, next_id, conn_pool, op, caller, ingest_text,
                   embedded, chunks, pairs, todo, query_embedding, logged,
                   entry, released, chatvars, raised, ingests, creates,
                   borrowers>>

\* committed as it would be with the DROP TABLE statement missing from
\* table_creation_query: CREATE TABLE IF NOT EXISTS leaves an existing table
\* and its rows alone.
committedWithoutDrop(t, work) ==
    IF work.recreate
    THEN [exists |-> TRUE, rows |-> t.rows]
    ELSE [t EXCEPT !.rows = @ \o work.rows]

\* What a commit makes of the table
committed(t, work) ==
    IF work.recreate
    THEN [exists |-> TRUE, rows |-> <<>>]
    ELSE [t EXCEPT !.rows = @ \o work.rows]

\* `with connection:` left without an exception: connection.commit().  The
\* commit itself may be refused or the connection lost: a commit that raises
\* has committed nothing.  A refused COMMIT ends the transaction all the
\* same (the server rolls it back); a lost connection is marked closed.
Commit ==
    /\ pc = "commit"
    /\ \/ /\ table' = committed(table, tx)
          /\ next_id' = IF tx.recreate THEN 1 ELSE next_id
          /\ tx' = NoTx
          /\ pc' = "finally"
          /\ UNCHANGED <<exc, connection>>
       \/ /\ \/ /\ exc' = "psycopg2.DatabaseError"
                /\ tx' = NoTx
                /\ connection' = connection
             \/ DbFailure("lost")
          /\ pc' = "except"
          /\ UNCHANGED <<table, next_id>>
    /\ UNCHANGED <<conn_pool, op, caller, ingest_text, embedded, chunks,
                   pairs, todo, query_embedding, retrieved_chunk, logged,
                   entry, released, chatvars, raised, ingests, creates,
                   borrowers>>

\* Rollback as it would be with the connection in autocommit mode: what the
\* statements did before the failure stays in the table.
RollbackKeepsRows ==
    /\ pc = "rollback"
    /\ table' = committed(table, tx)
    /\ tx' = NoTx
    /\ pc' = "except"
    /\ UNCHANGED <<next_id, conn_pool, connection, exc, op, caller,
                   ingest_text, embedded, chunks, pairs, todo,
                   query_embedding, retrieved_chunk, logged, entry, released,
                   chatvars, raised, ingests, creates, borrowers>>

\* `with connection:` left by an exception: connection.rollback(), which
\* itself raises InterfaceError on a closed connection.
Rollback ==
    /\ pc = "rollback"
    /\ IF connection = "open"
       THEN /\ tx' = NoTx
            /\ exc' = exc
       ELSE /\ tx' = tx
            /\ exc' = "psycopg2.InterfaceError"
    /\ pc' = "except"
    /\ UNCHANGED <<table, next_id, conn_pool, connection, op, caller,
                   ingest_text, embedded, chunks, pairs, todo,
                   query_embedding, retrieved_chunk, logged, entry, released,
                   chatvars, raised, ingests, creates, borrowers>>

\* except Exception as e: logger.error(...); raise
Except ==
    /\ pc = "except"
    /\ logged' = exc
    /\ pc' = "finally"
    /\ UNCHANGED <<dbvars, exc, op, caller, ingest_text, embedded, chunks,
                   pairs, todo, query_embedding, retrieved_chunk, entry,
                   released, chatvars, raised, ingests, creates, borrowers>>

\* Finally as it would be with putconn in an `else:` clause: the connection
\* goes back only when no exception is in flight.
FinallyOnSuccessOnly ==
    /\ pc = "finally"
    /\ IF connection # "unbound" /\ exc = NoExc
       THEN /\ conn_pool' = putconn(conn_pool, connection)
            /\ released' = released + 1
            /\ tx' = NoTx
       ELSE UNCHANGED <<conn_pool, released, tx>>
    /\ steps' = Step("putconn")
    /\ pc' = "return"
    /\ UNCHANGED <<table, next_id, connection, exc, op, caller, ingest_text,
                   embedded, chunks, pairs, todo, query_embedding,
                   retrieved_chunk, logged, entry, chat_history, query,
                   model_input_1, response_1, updated_context, similar_chunks,
                   model_input_2, session, turns, history_at_read, asked,
                   raised, ingests, creates, borrowers>>

\* finally: self.conn_pool.putconn(connection).  With `connection` never
\* bound (getconn raised) the name lookup raises UnboundLocalError, which
\* replaces the exception in flight.  putconn rolls back whatever
\* transaction an open connection still carries.
Finally ==
    /\ pc = "finally"
    /\ IF connection = "unbound"
       THEN /\ exc' = "UnboundLocalError"
            /\ UNCHANGED <<conn_pool, released, tx>>
       ELSE /\ conn_pool' = putconn(conn_pool, connection)
            /\ released' = released + 1
            /\ tx' = NoTx
            /\ exc' = exc
    /\ steps' = Step("putconn")
    /\ pc' = "return"
    /\ UNCHANGED <<table, next_id, connection, op, caller, ingest_text,
                   embedded, chunks, pairs, todo, query_embedding,
                   retrieved_chunk, logged, entry, chat_history, query,
                   model_input_1, response_1, updated_context, similar_chunks,
                   model_input_2, session, turns, history_at_read, asked,
                   raised, ingests, creates, borrowers>>

\* The store method is left: by return, or by the exception reaching the
\* caller.  The constructor's caller gets no store when _create_table
\* raises; a notebook cell just fails; the chat loop has no handler, so the
\* exception ends it.
Return ==
    /\ pc = "return"
    /\ raised' = exc
    /\ IF caller = "loop"
       THEN IF exc = NoExc
            THEN /\ similar_chunks' = retrieved_chunk
                 /\ steps' = Append(steps, "retrieve")
                 /\ pc' = "answer"
                 /\ session' = session
            ELSE /\ session' = "error"
                 /\ pc' = "ended"
                 /\ UNCHANGED <<similar_chunks, steps>>
       ELSE /\ pc' = IF caller = "init" /\ exc # NoExc
                     THEN "construct_failed" ELSE "ready"
            /\ UNCHANGED <<similar_chunks, steps, session>>
    /\ Leave
    /\ UNCHANGED <<table, next_id, conn_pool, tx, chat_history, query,
                   model_input_1, response_1, updated_context, model_input_2,
                   turns, history_at_read, asked, ingests, creates,
                   borrowers>>

\* ------------------------------------------------------------ the chat loop
\* chat = chat_model.start_chat(context = ""), then `while True:`.  The loop
\* is the notebook's last cell: no cell calls the store after it, so the
\* counts of those calls are of no use from here on and start over.
StartChat ==
    /\ pc = "ready"
    /\ session = "none"
    /\ session' = "running"
    /\ pc' = "input"
    /\ raised' = NoExc
    /\ ingests' = 0
    /\ creates' = 0
    /\ UNCHANGED <<dbvars, opvars, chat_history, query, model_input_1,
                   response_1, updated_context, similar_chunks, model_input_2,
                   turns, steps, history_at_read, asked, borrowers>>

\* ReadQuery as it would be with the `break` missing: the sentinel is
\* noticed, and the turn runs all the same.
ReadQueryNoBreak ==
    /\ pc = "input"
    /\ \E q \in Queries \cup {sentinel} :
        /\ query' = q
        /\ turns < MaxTurns
        /\ turns' = turns + 1
        /\ asked' = Append(asked, q)
        /\ pc' = "refresh"
        /\ session' = IF q = sentinel THEN "quit" ELSE session
    /\ steps' = <<>>
    /\ history_at_read' = chat_history
    /\ UNCHANGED <<dbvars, opvars, chat_history, model_input_1, response_1,
                   updated_context, similar_chunks, model_input_2, raised,
                   ingests, creates, borrowers>>

\* query = input("User Query: "); if query == "quit": break
ReadQuery ==
    /\ pc = "input"
    /\ \E q \in Queries \cup {sentinel} :
        /\ query' = q
        /\ IF q = sentinel
           THEN /\ pc' = "ended"
                /\ session' = "quit"
                /\ UNCHANGED <<turns, asked>>
           ELSE /\ turns < MaxTurns
                /\ turns' = turns + 1
                /\ asked' = Append(asked, q)
                /\ pc' = "refresh"
                /\ session' = session
    /\ steps' = <<>>
    /\ history_at_read' = chat_history
    /\ UNCHANGED <<dbvars, opvars, chat_history, model_input_1, response_1,
                   updated_context, similar_chunks, model_input_2, raised,
                   ingests, creates, borrowers>>

\* ContextRefresh as it would be with the call skipped while the history is
\* empty.
ContextRefreshSkipsEmpty ==
    /\ pc = "refresh"
    /\ IF chat_history = <<>>
       THEN /\ pc' = "retrieve"
            /\ updated_context' = <<>>
            /\ UNCHANGED <<model_input_1, response_1, steps>>
       ELSE /\ model_input_1' = prompt_template(<<>>, join(<<"\n">>, chat_history))
            /\ steps' = Append(steps, "refresh")
            /\ response_1' \in Responses
            /\ updated_context' = strip(response_1')
            /\ pc' = "retrieve"
    /\ UNCHANGED <<dbvars, opvars, chat_history, query, similar_chunks,
                   model_input_2, turns, history_at_read, asked, raised,
                   session, ingests, creates, borrowers>>

\* The first API call: the history, joined by newlines, with an empty query
\* slot; the stripped answer becomes updated_context.  A failure of the chat
\* service is not handled by the loop.
ContextRefresh ==
    /\ pc = "refresh"
    /\ model_input_1' = prompt_template(<<>>, join(<<"\n">>, chat_history))
    /\ steps' = Append(steps, "refresh")
    /\ \/ /\ response_1' \in Responses
          /\ updated_context' = strip(response_1')
          /\ pc' = "retrieve"
          /\ UNCHANGED <<raised, session>>
       \/ /\ raised' = "ChatError"
          /\ session' = "error"
          /\ pc' = "ended"
          /\ UNCHANGED <<response_1, updated_context>>
    /\ UNCHANGED <<dbvars, opvars, chat_history, query, similar_chunks,
                   model_input_2, turns, history_at_read, asked, ingests,
                   creates, borrowers>>

\* RetrieveCall as it would be with the embedding kept from one turn to the
\* next: the vector of the last query in the history, when there is one.
RetrieveCallKeepsEmbedding ==
    /\ pc = "retrieve"
    /\ steps' = Append(steps, "embed")
    /\ Enter("retrieve", "loop")
    /\ \/ /\ query_embedding' \in text_embedding(
                IF chat_history = <<>> THEN query
                ELSE chat_history[Len(chat_history)])
          /\ exc' = NoExc
          /\ pc' = "getconn"
       \/ /\ exc' = "EmbeddingError"
          /\ pc' = "return"
          /\ UNCHANGED query_embedding
    /\ UNCHANGED <<table, next_id, conn_pool, tx, ingest_text, embedded,
                   chunks, pairs, todo, retrieved_chunk, raised, session,
                   chat_history, query, model_input_1, response_1,
                   updated_context, similar_chunks, model_input_2, turns,
                   history_at_read, asked, ingests, creates, borrowers>>

\* RetrieveCall as it would be with text_embedding(query) called inside the
\* try block, after getconn: a failure of the embedding service then finds
\* a connection borrowed.
RetrieveCallEmbedsInTry ==
    /\ pc = "retrieve"
    /\ steps' = Append(steps, "embed")
    /\ op' = "retrieve"
    /\ caller' = "loop"
    /\ logged' = NoExc
    /\ released' = 0
    /\ entry' = [used |-> conn_pool.used, idle |-> conn_pool.idle,
                 rows |-> table.rows]
    /\ \/ /\ query_embedding' \in text_embedding(query)
          /\ exc' = NoExc
          /\ pc' = "getconn"
          /\ connection' = "unbound"
          /\ UNCHANGED conn_pool
       \/ /\ conn_pool.idle > 0
          /\ conn_pool' = getconn(conn_pool)
          /\ connection' = "open"
          /\ exc' = "EmbeddingError"
          /\ pc' = "except"
          /\ UNCHANGED query_embedding
    /\ UNCHANGED <<table, next_id, tx, ingest_text, embedded, chunks, pairs,
                   todo, retrieved_chunk, raised, session, chat_history, query,
                   model_input_1, response_1, updated_context, similar_chunks,
                   model_input_2, turns, history_at_read, asked, ingests,
                   creates, borrowers>>

\* datastore.retrieve(query): text_embedding(query) comes first, before the
\* try block; a failure of the embedding service leaves retrieve at once.
RetrieveCall ==
    /\ pc = "retrieve"
    /\ steps' = Append(steps, "embed")
    /\ Enter("retrieve", "loop")
    /\ \/ /\ query_embedding' \in text_embedding(query)
          /\ exc' = NoExc
          /\ pc' = "getconn"
       \/ /\ exc' = "EmbeddingError"
          /\ pc' = "return"
          /\ UNCHANGED query_embedding
    /\ UNCHANGED <<table, next_id, conn_pool, tx, ingest_text, embedded,
                   chunks, pairs, todo, retrieved_chunk, raised, session,
                   chat_history, query, model_input_1, response_1,
                   updated_context, similar_chunks, model_input_2, turns,
                   history_at_read, asked, ingests, creates, borrowers>>

\* updated_context += '\n'.join(similar_chunks)
merged_context(context, similar) == context \o join(<<"\n">>, similar)

\* Answer as it would be with chat_history.append(query) placed before the
\* second API call.
AnswerAppendsFirst ==
    /\ pc = "answer"
    /\ chat_history' = Append(chat_history, query)
    /\ updated_context' = merged_context(updated_context, similar_chunks)
    /\ model_input_2' = prompt_template(query, updated_context')
    /\ steps' = Append(steps, "answer")
    /\ \/ /\ pc' = "append"
          /\ UNCHANGED <<raised, session>>
       \/ /\ raised' = "ChatError"
          /\ session' = "error"
          /\ pc' = "ended"
    /\ UNCHANGED <<dbvars, opvars, query, model_input_1, response_1,
                   similar_chunks, turns, history_at_read, asked, ingests,
                   creates, borrowers>>

\* The second API call, answered or failing; its stripped answer is printed
Answer ==
    /\ pc = "answer"
    /\ updated_context' = merged_context(updated_context, similar_chunks)
    /\ model_input_2' = prompt_template(query, updated_context')
    /\ steps' = Append(steps, "answer")
    /\ \/ /\ pc' = "append"
          /\ UNCHANGED <<raised, session>>
       \/ /\ raised' = "ChatError"
          /\ session' = "error"
          /\ pc' = "ended"
    /\ UNCHANGED <<dbvars, opvars, chat_history, query, model_input_1,
                   response_1, similar_chunks, turns, history_at_read, asked,
                   ingests, creates, borrowers>>

\* AppendHistory as it would be if the context sent to the model were kept
\* instead of the query.
AppendHistoryKeepsContext ==
    /\ pc = "append"
    /\ chat_history' = Append(chat_history, updated_context)
    /\ steps' = Append(steps, "append")
    /\ pc' = "input"
    /\ UNCHANGED <<dbvars, opvars, query, model_input_1, response_1,
                   updated_context, similar_chunks, model_input_2, session,
                   turns, history_at_read, asked, raised, ingests, creates,
                   borrowers>>

\* chat_history.append(query), and back to the top of the loop.  The turn's
\* other names keep their values until the next turn assigns them again.
AppendHistory ==
    /\ pc = "append"
    /\ chat_history' = Append(chat_history, query)
    /\ steps' = Append(steps, "append")
    /\ pc' = "input"
    /\ UNCHANGED <<dbvars, opvars, query, model_input_1, response_1,
                   updated_context, similar_chunks, model_input_2, session,
                   turns, history_at_read, asked, raised, ingests, creates,
                   borrowers>>

\* ------------------------------------------------------------ specification
Next ==
    \/ Construct
    \/ CreateTableCall
    \/ IngestCall
    \/ EmbedChunk
    \/ EmbedDone
    \/ GetConn
    \/ RegisterVector
    \/ ExecCreate
    \/ ExecInsert
    \/ ExecSelect
    \/ Commit
    \/ Rollback
    \/ Except
    \/ Finally
    \/ Return
    \/ StartChat
    \/ ReadQuery
    \/ ContextRefresh
    \/ RetrieveCall
    \/ Answer
    \/ AppendHistory

Spec == Init /\ [][Next]_vars

\* ------------------------------------------------- the pool under contention
\* The pool as callers of the store's methods share it: each caller does
\* `connection = self.conn_pool.getconn()` and, later,
\* `self.conn_pool.putconn(connection)`.  `raised` is what the last getconn
\* raised.
Callers == 1..MaxCallers

\* connection = self.conn_pool.getconn(), by a caller holding none
PoolAcquire(c) ==
    /\ c \notin borrowers
    /\ \E r \in getconn_outcomes(conn_pool) :
        /\ raised' = IF r = "ok" THEN NoExc ELSE r
        /\ IF r = "ok"
           THEN /\ conn_pool' = getconn(conn_pool)
                /\ borrowers' = borrowers \cup {c}
           ELSE UNCHANGED <<conn_pool, borrowers>>
    /\ UNCHANGED <<table, next_id, connection, tx, opvars, chatvars, pc,
                   ingests, creates>>

\* self.conn_pool.putconn(connection), by a caller holding one
PoolRelease(c) ==
    /\ c \in borrowers
    /\ conn_pool' = putconn(conn_pool, "open")
    /\ borrowers' = borrowers \ {c}
    /\ raised' = NoExc
    /\ UNCHANGED <<table, next_id, connection, tx, opvars, chatvars, pc,
                   ingests, creates>>

PoolNext == \E c \in Callers : PoolAcquire(c) \/ PoolRelease(c)

PoolSpec == Init /\ [][PoolNext]_vars

\* ------------------------------------------------------------------ claims
InTry == {"register", "exec", "commit", "rollback", "except", "finally"}

\* C1: in _create_table, ingest and retrieve alike, a connection borrowed
\* from the pool is handed back exactly once on every way out of the
\* method, a database error included, and it is back before the method is
\* left: while borrowed the pool counts one more than at the call, and when
\* the method returns or raises the count is what it was at the call.
C1_ConnectionReturnedExactlyOnce ==
    /\ released <= 1
    /\ (pc \in InTry /\ connection # "unbound")
          => (released = 0 /\ conn_pool.used = entry.used + 1)
    /\ (pc = "return" /\ connection # "unbound")
          => (released = 1 /\ conn_pool.used = entry.used)

\* C1 witness: ingest is about to raise a database error to its caller and
\* its connection is already back in the pool's count.
C1_Witness ==
    /\ pc = "return"
    /\ op = "ingest"
    /\ exc \in DbErrors
    /\ released = 1
    /\ conn_pool.used = entry.used

\* The rows an ingest call adds for its (chunk, vector) pairs
RowsMatch(rows, ps) ==
    /\ Len(rows) = Len(ps)
    /\ \A i \in 1..Len(ps) :
          /\ rows[i].text_chunk = ps[i].text
          /\ rows[i].embedding = ps[i].embedding

\* C2: ingest is all-or-nothing.  When it raises (splitter, embedding of any
\* chunk, insert of any row, commit) the table holds exactly the rows it
\* held at the call; when it returns, the table holds those rows followed
\* by one row per (chunk, vector) pair of the call.  Until it is left
\* without error, no row of the call is in the table.
C2_IngestAllOrNothing ==
    /\ (op = "ingest" /\ pc # "return") =>
          (table.rows = entry.rows
           \/ (pc = "finally" /\ exc = NoExc))
    /\ (op = "ingest" /\ pc = "return" /\ exc # NoExc) => table.rows = entry.rows
    /\ (op = "ingest" /\ pc \in {"finally", "return"} /\ exc = NoExc) =>
          /\ SubSeq(table.rows, 1, Len(entry.rows)) = entry.rows
          /\ RowsMatch(SubSeq(table.rows, Len(entry.rows) + 1, Len(table.rows)),
                       pairs)
          /\ chunks = <<>>

\* C2 witness: the insert failed after at least one row of the batch had
\* gone in, and ingest is about to raise with the table as it was.
C2_Witness ==
    /\ pc = "return"
    /\ op = "ingest"
    /\ exc \in DbErrors
    /\ todo # <<>>
    /\ Len(todo) < Len(pairs)
    /\ table.rows = entry.rows

\* The ranking with ties broken by insertion order (the smaller id first)
RECURSIVE StableRanking(_, _, _, _)
StableRanking(rows, q, remaining, k) ==
    IF k = 0 \/ remaining = {} THEN <<>>
    ELSE LET first == CHOOSE i \in remaining :
                        \A j \in remaining :
                            \/ L2(rows[i].embedding, q) < L2(rows[j].embedding, q)
                            \/ /\ L2(rows[i].embedding, q) = L2(rows[j].embedding, q)
                               /\ rows[i].id <= rows[j].id
         IN <<first>> \o StableRanking(rows, q, remaining \ {first}, k - 1)

StableTopK(rows, q) ==
    LET r == StableRanking(rows, q, 1..Len(rows), LimitK)
    IN [n \in 1..Len(r) |-> rows[r[n]].text_chunk]

\* C3: retrieve returns the texts of the min(5, rows) nearest rows in
\* non-decreasing distance, rows at equal distance in insertion order (also
\* at the cut-off), so the result is a function of corpus and query vector.
C3_TiesInInsertionOrder ==
    (op = "retrieve" /\ pc = "return" /\ exc = NoExc)
        => retrieved_chunk = StableTopK(table.rows, query_embedding)

\* C4: the context of the Answer prompt is the refreshed context, a newline,
\* and the retrieved chunks joined by newlines; the Answer prompt is the
\* template filled with the query and that context.
C4_ContextHasSeparator ==
    pc = "append" =>
        /\ updated_context
             = strip(response_1) \o <<"\n">> \o join(<<"\n">>, similar_chunks)
        /\ model_input_2 = prompt_template(query, updated_context)

\* C5: a failed turn (chat service in either call, embedding, database)
\* leaves chat_history as it was when the turn's query was read: the query
\* of the failed turn is the last one asked and is not in the history.
C5_FailedTurnKeepsHistory ==
    session = "error" =>
        /\ chat_history = history_at_read
        /\ asked = Append(chat_history, query)

\* C5 witness: the Answer call of a later turn failed.
C5_Witness ==
    /\ session = "error"
    /\ raised = "ChatError"
    /\ steps = <<"refresh", "embed", "getconn", "putconn", "retrieve", "answer">>
    /\ chat_history # <<>>

\* C6: a failed turn does not end the session: "quit" is the only way the
\* loop is left.
C6_OnlyQuitEndsSession == pc = "ended" => session = "quit"

\* C7: on the sentinel the loop is left at once: no step of a turn is taken
\* (no chat call, no embedding, no retrieve, no connection borrowed), the
\* history is untouched, and nothing runs afterwards.
C7_QuitDoesNothing ==
    session = "quit" =>
        /\ pc = "ended"
        /\ steps = <<>>
        /\ chat_history = history_at_read
        /\ conn_pool.used = 0
        /\ op = "none"

\* C7 witness: the sentinel was read after a completed turn.
C7_Witness ==
    /\ session = "quit"
    /\ query = sentinel
    /\ chat_history # <<>>

TurnSteps ==
    <<"refresh", "embed", "getconn", "putconn", "retrieve", "answer", "append">>

IsPrefix(s, t) == Len(s) <= Len(t) /\ s = SubSeq(t, 1, Len(s))

\* C8: a turn's steps come in the order ContextRefresh, retrieve (embedding,
\* borrow, release, return), Answer, append, each once and each after the
\* one before; ContextRefresh is sent on every turn, the first included,
\* with an empty query slot and the history joined by newlines; the next
\* query is read only after the append.
C8_TurnOrder ==
    /\ session # "none" => IsPrefix(steps, TurnSteps)
    /\ pc = "retrieve" => steps = SubSeq(TurnSteps, 1, 1)
    /\ pc = "answer" => steps = SubSeq(TurnSteps, 1, 5)
    /\ pc = "append" => steps = SubSeq(TurnSteps, 1, 6)
    /\ (pc = "input" /\ turns > 0) => steps = TurnSteps
    /\ (session = "running" /\ pc \notin {"input", "refresh"})
          => model_input_1
               = prompt_template(<<>>, join(<<"\n">>, history_at_read))

\* C8 witness: the first turn, history empty, has made the ContextRefresh
\* call and the retrieval and is about to make the Answer call.
C8_Witness ==
    /\ pc = "answer"
    /\ history_at_read = <<>>
    /\ steps = SubSeq(TurnSteps, 1, 5)
    /\ model_input_1 = prompt_template(<<>>, <<>>)

\* C9: chat_history is the sequence of the queries of the completed turns,
\* in the order asked: between turns and after "quit" it is every query
\* read; inside a turn, or after a failed one, every query read but the
\* last.
C9_HistoryIsCompletedQueries ==
    IF pc = "input" \/ session \in {"none", "quit"}
    THEN chat_history = asked
    ELSE asked = Append(chat_history, query)

\* C9 witness: two turns with different queries have completed.
C9_Witness ==
    /\ pc = "input"
    /\ Len(chat_history) = 2
    /\ chat_history[1] # chat_history[2]

\* C10: a database error in _create_table, ingest or retrieve reaches the
\* caller as a StoreOperationError, after being logged.
C10_RaisedAsStoreOperationError ==
    (pc = "return" /\ logged \in DbErrors)
        => (exc = "StoreOperationError")

\* C11: _create_table is destructive and idempotent.  Whatever the table was
\* at the call (absent, empty, populated), a _create_table that returns
\* leaves it present with zero rows and the id sequence at its start, so a
\* second run in succession gives the state of the first; and the table's
\* being there already is no error: whatever _create_table raises is a
\* failure of the database or of the pool, never of the table's existence.
C11_CreateTableResets ==
    /\ (op = "create" /\ pc = "return" /\ exc = NoExc)
          => (table = [exists |-> TRUE, rows |-> <<>>] /\ next_id = 1)
    /\ (pc = "ready" /\ raised = NoExc /\ ingests = 0)
          => (table = [exists |-> TRUE, rows |-> <<>>] /\ next_id = 1)
    /\ (op = "create" /\ pc = "return" /\ exc # NoExc)
          => exc \in DbErrors \cup {"UnboundLocalError"}

\* C11 witness: _create_table, called again on a store whose table ingest
\* had populated, is about to return with the table empty.
C11_Witness ==
    /\ op = "create"
    /\ caller = "cell"
    /\ pc = "return"
    /\ exc = NoExc
    /\ entry.rows # <<>>
    /\ table = [exists |-> TRUE, rows |-> <<>>]

\* C12: an acquire on a pool whose maxconn connections are all borrowed
\* waits for one to come back; it does not fail with an error.
C12_ExhaustedAcquireBlocks ==
    (conn_pool.used = maxconn /\ conn_pool.idle = 0)
        => raised # "psycopg2.pool.PoolError"

\* What may go wrong around a store method for reasons outside it: the
\* database, the embedding service, the splitter's tokenizer, and the
\* release step after a failed getconn.
OutsideErrors ==
    DbErrors \cup {"EmbeddingError", "SplitterError", "UnboundLocalError"}

\* C13: retrieve on a table without rows returns the empty sequence, and
\* raises nothing but what the database or the embedding service raised.  A
\* turn whose retrieval is empty goes on: the Answer call is made with the
\* refreshed context alone, and the turn reaches the append of its query.
C13_EmptyRetrieval ==
    /\ (op = "retrieve" /\ pc = "return" /\ entry.rows = <<>>)
          => /\ exc = NoExc => (table.exists /\ retrieved_chunk = <<>>)
             /\ exc \in {NoExc} \cup OutsideErrors
    /\ (pc = "append" /\ similar_chunks = <<>>)
          => /\ updated_context = strip(response_1)
             /\ model_input_2 = prompt_template(query, strip(response_1))
             /\ steps = SubSeq(TurnSteps, 1, 6)
    /\ (pc = "input" /\ turns > 0)
          => (chat_history # <<>> /\ chat_history[Len(chat_history)] = query)

\* C13 witness: the table exists and is empty, retrieve returned no chunk,
\* the Answer call was made and the query is about to be appended.
C13_Witness ==
    /\ pc = "append"
    /\ table = [exists |-> TRUE, rows |-> <<>>]
    /\ similar_chunks = <<>>
    /\ steps = SubSeq(TurnSteps, 1, 6)
    /\ updated_context # <<>>

\* C14: every row of the table, and every row a transaction is about to
\* add, has a vector of the declared width; an ingest whose batch holds a
\* vector of another width raises and leaves the table as it was: the
\* insert of that row is where it stops at the latest.
C14_DeclaredWidthOnly ==
    /\ \A i \in 1..Len(table.rows) :
          table.rows[i].embedding.width = EmbeddingWidth
    /\ \A i \in 1..Len(tx.rows) : tx.rows[i].embedding.width = EmbeddingWidth
    /\ (op = "ingest" /\ pc = "return"
          /\ \E i \in 1..Len(pairs) : pairs[i].embedding.width # EmbeddingWidth)
          => (exc # NoExc /\ table.rows = entry.rows)

\* C14 witness: the batch's first vectors were of the declared width and
\* went in, the next one was not: ingest is about to raise the database's
\* error with the table as it was.
C14_Witness ==
    /\ op = "ingest"
    /\ pc = "return"
    /\ exc = "psycopg2.DatabaseError"
    /\ connection = "open"
    /\ todo # <<>>
    /\ Len(todo) < Len(pairs)
    /\ Head(todo).embedding.width # EmbeddingWidth
    /\ table.exists
    /\ table.rows = entry.rows

\* C15: split_input_to_chunks of the empty text is the empty sequence, so
\* ingest of the empty text embeds no chunk and has no pair to insert,
\* adds no row, and raises nothing the database or the services did not
\* raise: so it is when ingest is left.
C15_EmptyTextNoChunks ==
    (op = "ingest" /\ ingest_text = <<>> /\ pc = "return")
        => /\ pairs = <<>>
           /\ table.rows = entry.rows
           /\ exc \in {NoExc} \cup OutsideErrors

\* The tokens two consecutive chunks share: the longest end of the first
\* that is also the beginning of the second.
RECURSIVE shared(_, _, _)
shared(a, b, k) ==
    IF k = 0 THEN 0
    ELSE IF k <= Len(a) /\ k <= Len(b)
            /\ SubSeq(a, Len(a) - k + 1, Len(a)) = SubSeq(b, 1, k)
         THEN token_size(SubSeq(b, 1, k))
         ELSE shared(a, b, k - 1)

\* C16: of the chunks split_input_to_chunks makes of a text, any two
\* consecutive ones share at most chunk_overlap (20) tokens and none is
\* longer than chunk_size (300) tokens.
C16_ChunksWithinBounds ==
    (op = "ingest" /\ pc = "embed" /\ pairs = <<>>)
        => /\ \A i \in 1..(Len(chunks) - 1) :
                shared(chunks[i], chunks[i + 1], Len(chunks[i])) <= chunk_overlap
           /\ \A i \in 1..Len(chunks) : token_size(chunks[i]) <= chunk_size

\* C17: rows are stored in segmenter order and only ever appended by
\* ingest.  The ids of the table's rows grow along the table; while ingest
\* runs, the rows that were there at the call stay as they were, ids
\* included; when it returns, the rows after them are the chunks of the
\* text, one row per chunk in the segmenter's order, each with a larger id
\* than the row before it.
C17_RowsInSegmenterOrder ==
    /\ \A i \in 1..(Len(table.rows) - 1) :
          table.rows[i].id < table.rows[i + 1].id
    /\ op = "ingest" =>
          /\ Len(entry.rows) <= Len(table.rows)
          /\ SubSeq(table.rows, 1, Len(entry.rows)) = entry.rows
    /\ (op = "ingest" /\ pc = "return" /\ exc = NoExc) =>
          LET made == split_input_to_chunks(ingest_text)
              base == Len(entry.rows)
          IN /\ Len(table.rows) = base + Len(made)
             /\ \A i \in 1..Len(made) :
                   table.rows[base + i].text_chunk = made[i]

\* C17 witness: a second ingest, of a text of several different chunks,
\* returns with the table holding the earlier rows and then its own.
C17_Witness ==
    /\ op = "ingest"
    /\ pc = "return"
    /\ exc = NoExc
    /\ entry.rows # <<>>
    /\ Len(table.rows) >= Len(entry.rows) + 2
    /\ table.rows[Len(entry.rows) + 1].text_chunk
          # table.rows[Len(entry.rows) + 2].text_chunk

\* result is a nearest-first selection of the rows for the vector q: it has
\* min(LimitK, rows) texts, and its n-th text is the text of a row whose
\* distance to q is the n-th smallest.
RankedBy(result, rows, q) ==
    /\ Len(result) = IF Len(rows) < LimitK THEN Len(rows) ELSE LimitK
    /\ \A n \in 1..Len(result) :
          \E i \in 1..Len(rows) :
              LET d == L2(rows[i].embedding, q)
                  nearer == {j \in 1..Len(rows) : L2(rows[j].embedding, q) < d}
                  upto == {j \in 1..Len(rows) : L2(rows[j].embedding, q) <= d}
              IN /\ rows[i].text_chunk = result[n]
                 /\ Cardinality(nearer) < n
                 /\ n <= Cardinality(upto)

\* C18: in every turn the search is made with the vector text_embedding
\* gave, in this very retrieve call, for the query read in this turn, never
\* with the vector of an earlier query: what the search returns is a
\* ranking of the rows by their distance to this query's vector.  The query
\* of the Answer prompt is that same query.
C18_EmbeddingOfCurrentQuery ==
    /\ (session = "running" /\ pc # "input") => query = asked[Len(asked)]
    /\ (op = "retrieve" /\ pc \in {"getconn"} \cup InTry)
          => query_embedding \in text_embedding(query)
    /\ (op = "retrieve" /\ pc = "commit")
          => RankedBy(retrieved_chunk, table.rows, EmbeddingModel(query))
    /\ pc = "answer"
          => RankedBy(similar_chunks, table.rows, EmbeddingModel(query))
    /\ pc = "append" => model_input_2 = prompt_template(query, updated_context)

\* C18 witness: a later turn, whose query differs from the one before and
\* has another vector, has searched a table with rows.
C18_Witness ==
    /\ op = "retrieve"
    /\ pc = "commit"
    /\ chat_history # <<>>
    /\ EmbeddingModel(chat_history[Len(chat_history)]) # EmbeddingModel(query)
    /\ query_embedding = EmbeddingModel(query)
    /\ Len(table.rows) >= 2
    /\ ~RankedBy(retrieved_chunk, table.rows,
                 EmbeddingModel(chat_history[Len(chat_history)]))

\* Where the thread of control is outside every store method
BetweenOperations ==
    {"ready", "input", "refresh", "retrieve", "answer", "append", "ended",
     "construct_failed"}

\* C19: in the notebook's single thread at most one connection is borrowed
\* at any moment, and none between store operations: while the loop waits
\* for a query, while a chat call is in progress, and after the session has
\* ended, by "quit" or by an error, the pool has nothing out.
C19_NoConnectionHeldBetweenOperations ==
    /\ conn_pool.used <= 1
    /\ conn_pool.used = 1 => (connection # "unbound" /\ pc \in InTry)
    /\ pc \in BetweenOperations
          => (conn_pool.used = 0 /\ connection = "unbound" /\ tx = NoTx)

\* C19 witness: in a later turn retrieve has borrowed and returned its
\* connection, and the Answer call is in progress with nothing borrowed.
C19_Witness ==
    /\ pc = "answer"
    /\ chat_history # <<>>
    /\ steps = SubSeq(TurnSteps, 1, 5)
    /\ similar_chunks # <<>>
    /\ conn_pool.used = 0

\* C20: when getconn itself fails in _create_table, ingest or retrieve, the
\* error that reaches the caller is the one getconn raised and the except
\* clause logged; the release step neither replaces it nor hands anything
\* back.
C20_AcquisitionErrorReachesCaller ==
    (pc = "return" /\ connection = "unbound" /\ logged # NoExc)
        => (exc = logged /\ released = 0)

\* C21: no external call is made twice.  In one ingest the embedding
\* service is called for the chunks of the text in their order, once each,
\* and not again after a call has failed: the calls made are a beginning of
\* the chunk sequence, all of it when the database work starts, and one more
\* than the pairs made when a call has failed.  In one turn there is at most
\* one ContextRefresh call, one embedding call and one Answer call, and a
\* failed call is the last step of the turn and of the session.
C21_NoRetry ==
    /\ op = "ingest" =>
          /\ IsPrefix(embedded, split_input_to_chunks(ingest_text))
          /\ Len(pairs) <= Len(embedded)
          /\ \A i \in 1..Len(pairs) : pairs[i].text = embedded[i]
    /\ (op = "ingest" /\ exc = "EmbeddingError")
          => (pc = "return" /\ Len(embedded) = Len(pairs) + 1)
    /\ (op = "ingest" /\ pc \in {"getconn"} \cup InTry)
          => (embedded = split_input_to_chunks(ingest_text)
              /\ Len(pairs) = Len(embedded))
    /\ \A call \in {"refresh", "embed", "answer"} : Count(call, steps) <= 1
    /\ (session = "error" /\ raised = "ChatError")
          => (pc = "ended" /\ steps[Len(steps)] \in {"refresh", "answer"})
    /\ (session = "error" /\ raised = "EmbeddingError")
          => (pc = "ended" /\ steps[Len(steps)] = "embed")

\* C21 witness: the embedding of the second chunk of a text failed; ingest
\* is about to raise, with two calls made, one pair built and the rest of
\* the chunks never sent.
C21_Witness ==
    /\ op = "ingest"
    /\ pc = "return"
    /\ exc = "EmbeddingError"
    /\ Len(embedded) = 2
    /\ Len(pairs) = 1
    /\ Len(chunks) > 1

\* C22: the pool made at construction is drained when the store is no
\* longer used, on every way out: once the session has ended, by "quit" or
\* by an error, or construction has failed in _create_table, the pool holds
\* no open connection, idle or borrowed.
C22_PoolDrainedAtTeardown ==
    pc \in {"ended", "construct_failed"}
        => (conn_pool.idle = 0 /\ conn_pool.used = 0)

\* C23: a failure of the embedding service, for a chunk in ingest or for
\* the query in retrieve, comes before any connection is acquired: when the
\* method is left with that error no connection was bound, borrowed or
\* handed back, nothing was logged by the except clause, and the pool and
\* the table are as they were at the call; the error is what the caller
\* gets, with the pool at rest.
C23_EmbeddingFailsBeforeAcquire ==
    /\ exc = "EmbeddingError" =>
          /\ pc = "return"
          /\ op \in {"ingest", "retrieve"}
          /\ connection = "unbound"
          /\ released = 0
          /\ logged = NoExc
          /\ tx = NoTx
          /\ conn_pool = [idle |-> entry.idle, used |-> entry.used]
          /\ table.rows = entry.rows
    /\ raised = "EmbeddingError" =>
          /\ pc = "ready" \/ (pc = "ended" /\ session = "error")
          /\ conn_pool.used = 0

\* C23 witness: in a turn, with rows in the table and a connection idle in
\* the pool, the embedding of the query failed and retrieve is about to
\* raise.
C23_Witness ==
    /\ op = "retrieve"
    /\ pc = "return"
    /\ exc = "EmbeddingError"
    /\ table.rows # <<>>
    /\ conn_pool = [idle |-> minconn, used |-> 0]
    /\ steps = SubSeq(TurnSteps, 1, 2)

\* C24: every store operation does its database work on its one connection
\* inside a single transaction, committed if and only if the operation
\* succeeds and rolled back otherwise, so the connection it hands to putconn
\* carries no open transaction: at the finally clause an open connection is
\* idle, with nothing pending, in retrieve too, whose register_vector step
\* runs before the with block; the operation borrowed one connection, and
\* when it fails the table is as it was at the call.
C24_NoOpenTransactionReturned ==
    /\ (pc = "finally" /\ connection = "open") => tx = NoTx
    /\ (pc \in InTry /\ connection # "unbound")
          => conn_pool.used = entry.used + 1
    /\ (pc = "return" /\ exc # NoExc /\ op \in {"create", "ingest", "retrieve"})
          => table.rows = entry.rows

====
